---- MODULE Spec2Model ----
(***************************************************************************)
(* State-machine model of function_app.py: the chunked loader              *)
(* (load_chunked_blob_data_to_postgres) and the chunked exporter           *)
(* (export_clean_data_to_csv_chunked) against a relational store and an    *)
(* object store.                                                           *)
(*                                                                         *)
(* A row of a dataset is identified by its 1-based position in the         *)
(* dataset; rows a table held before a load are negative numbers.          *)
(***************************************************************************)
EXTENDS Integers, Sequences, FiniteSets, TLC

\* ------------------------------------------------------------------ bounds
MaxRows == 7
MaxChunk == 3
MaxView == 5
MaxPage == 3
MaxApiRows == 6
MaxSrcRows == 2
MaxRaceRows == 3
MaxRaceChunk == 2
\* the chunk size 100_000 of the handler's loads (lines 408-504), scaled down
HandlerChunk == 2

\* ------------------------------------------------------- program constants
\* function_app.py:313  "if chunk_count == 6 and target_table == ..."
DemoLimitChunk == 6
\* function_app.py:313 / 404
DemoLimitTable == "nppes_providers"

\* Invocations of the chunked loader.  Nothing in the program keeps two
\* invocations apart, so the loader state is kept per invocation; Spec runs
\* one of them.
Loaders == {"A", "B"}
\* Two of the target tables (lines 404, 413): the capped one and another.
Tables == {"nppes_providers", "zip_county"}
\* Rows left in a table by an earlier run.
OldRows == <<-1, -2>>

VARIABLES
  ld,         \* ld[p]: local state of invocation p of the chunked loader
  table,      \* table[t]: committed content of store table t (a sequence of rows)
  open_txns,  \* number of store transactions currently in progress
  ex,         \* local state of the invocation of the chunked exporter
  view,       \* rows of the export view, in the order get_export_chunk pages them
  blob,       \* content of the export blob in the object store
  api,        \* local state of the invocation of the snapshot loader
  census,     \* committed rows of the table census_county_population
  hd          \* state of the invocation of the HTTP handler NPPES_Data_Cleaning

vars == <<ld, table, open_txns, ex, view, blob, api, census, hd>>

\* ----------------------------------------------------------------- helpers
Min(a, b) == IF a < b THEN a ELSE b

RECURSIVE SumLen(_)
SumLen(ws) == IF ws = <<>> THEN 0 ELSE ws[1].len + SumLen(Tail(ws))

\* ceil(n / c) for n >= 0, c >= 1
CeilDiv(n, c) == (n + c - 1) \div c

\* mutant of Slice: the window's end is taken one row too far
Slice_OneTooMany(ds, offset, length) ==
  IF offset >= Len(ds) THEN <<>>
  ELSE SubSeq(ds, offset + 1, Min(offset + length + 1, Len(ds)))

\* polars LazyFrame.slice(offset, length).collect(): at most `length` rows
\* starting after `offset` rows; empty when offset is at or past the end.
Slice(ds, offset, length) ==
  IF offset >= Len(ds) THEN <<>>
  ELSE SubSeq(ds, offset + 1, Min(offset + length, Len(ds)))

NoTxn == [active |-> FALSE, trunc |-> FALSE, rows |-> <<>>]

\* CALL truncate_table(target_table): the store-side procedure empties the
\* table; inside a transaction the effect is pending until commit.
TruncateTable(tx) == [active |-> TRUE, trunc |-> TRUE, rows |-> <<>>]

\* cursor.copy_from(output, target_table, ...): appends the rows of the
\* serialized window to the table, pending until commit.
CopyFromRows(tx, rows) == [active |-> TRUE, trunc |-> tx.trunc, rows |-> tx.rows \o rows]

\* pg_conn.commit(): the pending truncate and rows become the table content.
Committed(content, tx) == (IF tx.trunc THEN <<>> ELSE content) \o tx.rows

\* number of transactions that a statement on this connection starts
Begins(tx) == IF tx.active THEN 0 ELSE 1
\* number of transactions that commit / rollback / close ends
Ends(tx) == IF tx.active THEN 1 ELSE 0

IdleLoader ==
  [pc |-> "idle", dataset |-> <<>>, target_table |-> "zip_county", chunk_size |-> 1,
   conn |-> "none", chunk_count |-> 0, total_rows_processed |-> 0,
   batch_df |-> <<>>, txn |-> NoTxn,
   windows |-> <<>>, truncs |-> <<>>, copies |-> <<>>, commits |-> <<>>,
   failed_chunk |-> 0, failure |-> "none", capped |-> FALSE, closes |-> 0,
   before |-> <<>>]

\* a call load_chunked_blob_data_to_postgres(lazy_df, target_table, chunk_size)
\* about to start, the target table holding `content`
NewLoader(ds, t, c, content) ==
  [IdleLoader EXCEPT !.pc = "start", !.dataset = ds, !.target_table = t,
                     !.chunk_size = c, !.before = content]

Dataset(n) == [i \in 1..n |-> i]

\* the export blob: absent, or a text
NoBlob == [present |-> FALSE, data |-> <<>>]
StaleBlob == [present |-> TRUE, data |-> <<"o", "l", "d">>]

IdleExporter ==
  [pc |-> "idle", chunk_size |-> 1, conn |-> "none", closes |-> 0, txn |-> FALSE,
   chunk_start |-> 0, csv_content |-> <<>>, processed_count |-> 0,
   calls |-> <<>>, upload_calls |-> 0, failure |-> "none", result |-> "none"]

\* a call export_clean_data_to_csv_chunked(chunk_size, output_filename)
NewExporter(c) == [IdleExporter EXCEPT !.pc = "start", !.chunk_size = c]

IdleApi ==
  [pc |-> "idle", rows |-> <<>>, cleaned_lines |-> <<>>, conn |-> "none",
   closes |-> 0, txn |-> <<>>, in_txn |-> FALSE, commits |-> 0,
   failure |-> "none", before |-> <<>>]

\* a call load_api_data(data), data[1:] being `rows`, the table holding `content`
NewApi(rows, content) == [IdleApi EXCEPT !.pc = "start", !.rows = rows, !.before = content]

\* the target tables of the handler's four sources, in the order it loads
\* them (lines 404, 413, 454, 476)
SourceTables == <<"nppes_providers", "zip_county", "ssa_fips_state_county", "nucc_taxonomy">>
SourceTableSet == {SourceTables[k] : k \in 1..Len(SourceTables)}

IdleHandler ==
  [pc |-> "idle", source |-> 0, steps |-> <<>>, status |-> 0, responses |-> 0,
   cause |-> "none", defect |-> 0, export_csv |-> TRUE, csv_chunk_size |-> 1,
   tconn |-> "none", tcloses |-> 0, ttxn |-> FALSE, pending_view |-> <<>>,
   loaded |-> <<>>, skipped |-> <<>>,
   as_loaded |-> [t \in SourceTableSet |-> <<>>]]

\* ------------------------------------------------------------------- Init
Init ==
  /\ table \in [Tables -> {<<>>, OldRows}]
  /\ open_txns = 0
  /\ ex = IdleExporter
  /\ view = <<>>
  /\ blob = NoBlob
  /\ api = IdleApi
  /\ census = <<>>
  /\ hd = IdleHandler
  /\ \E n \in 0..MaxRows, c \in 1..MaxChunk, t \in Tables :
       ld = [p \in Loaders |->
               IF p = "A" THEN NewLoader(Dataset(n), t, c, table[t]) ELSE IdleLoader]

\* ------------------------------------------- load_chunked_blob_data_to_postgres
\* mutant of Raise: the outer handler re-raises without closing
Raise_NoClose(s, kind) ==
  [s EXCEPT !.pc = "raised", !.failure = kind, !.txn = NoTxn]

\* The outer handler (lines 356-360): close the connection if one was
\* acquired, then re-raise.  Closing a connection discards its transaction.
Raise(s, kind) ==
  [s EXCEPT !.pc = "raised", !.failure = kind, !.txn = NoTxn,
            !.conn = IF s.conn = "open" THEN "closed" ELSE s.conn,
            !.closes = IF s.conn = "open" THEN s.closes + 1 ELSE s.closes]

\* lines 301-303: pg_conn = get_psycopg2_connection(); counters start at 0
Connect(p) ==
  /\ ld[p].pc = "start"
  /\ ld' = [ld EXCEPT ![p] = [@ EXCEPT !.pc = "loop", !.conn = "open",
                                       !.chunk_count = 0,
                                       !.total_rows_processed = 0]]
  /\ UNCHANGED <<table, open_txns, ex, view, blob, api, census, hd>>

\* lines 114-126, 356-360: the connection cannot be made; ValueError propagates
ConnectFails(p) ==
  /\ ld[p].pc = "start"
  /\ ld' = [ld EXCEPT ![p] = Raise(@, "connect")]
  /\ UNCHANGED <<table, open_txns, ex, view, blob, api, census, hd>>

\* mutant of AfterWindow: the first chunk truncates before the window is
\* tested for emptiness
AfterWindow_TruncateBeforeEmptyTest(s, k, w) ==
  IF k = 1 THEN "truncate"
  ELSE IF w = <<>> THEN "close"
  ELSE IF k = DemoLimitChunk /\ s.target_table = DemoLimitTable THEN "close"
  ELSE "copy"

\* mutant of AfterWindow: every chunk truncates the table
AfterWindow_TruncateEveryChunk(s, k, w) ==
  IF w = <<>> THEN "close"
  ELSE IF k = DemoLimitChunk /\ s.target_table = DemoLimitTable THEN "close"
  ELSE "truncate"

\* mutant of AfterWindow: the first chunk is inserted without the truncate
AfterWindow_NoTruncate(s, k, w) ==
  IF w = <<>> THEN "close"
  ELSE IF k = DemoLimitChunk /\ s.target_table = DemoLimitTable THEN "close"
  ELSE "copy"

\* mutant of AfterWindow: the demo limit is applied whatever the table
AfterWindow_LimitAnyTable(s, k, w) ==
  IF w = <<>> THEN "close"
  ELSE IF k = DemoLimitChunk THEN "close"
  ELSE IF k = 1 THEN "truncate"
  ELSE "copy"

\* where the loop goes after materializing window w as chunk number k
AfterWindow(s, k, w) ==
  IF w = <<>> THEN "close"
  ELSE IF k = DemoLimitChunk /\ s.target_table = DemoLimitTable THEN "close"
  ELSE IF k = 1 THEN "truncate"
  ELSE "copy"

\* lines 150-159, 284-290 and 307: the dataset handed to the loader is a lazy
\* plan; when its source lacks a selected column or does not parse, nothing
\* has been checked yet and collect() is where the error is raised
Defective(p) == p = "A" /\ hd.pc = "load" /\ hd.defect = hd.source

\* lines 305-322: top of the loop, materialize the next window
NextWindow(p) ==
  /\ ld[p].pc = "loop"
  /\ ~Defective(p)
  /\ LET s == ld[p]
         k == s.chunk_count + 1
         w == Slice(s.dataset, s.total_rows_processed, s.chunk_size)
         to == AfterWindow(s, k, w)
     IN ld' = [ld EXCEPT ![p] =
                 [s EXCEPT !.chunk_count = k,
                           !.batch_df = w,
                           !.windows = Append(@, [offset |-> s.total_rows_processed,
                                                  len |-> Len(w)]),
                           !.capped = (w # <<>> /\ to = "close"),
                           !.pc = to]]
  /\ UNCHANGED <<table, open_txns, ex, view, blob, api, census, hd>>

\* line 307 raising (the lazy plan fails to evaluate): outer handler
CollectFails(p) ==
  /\ ld[p].pc = "loop"
  /\ ld' = [ld EXCEPT ![p] = Raise([@ EXCEPT !.chunk_count = @ + 1], "collect")]
  /\ UNCHANGED <<table, open_txns, ex, view, blob, api, census, hd>>

\* mutant of Truncate: the truncate is committed on its own, ahead of the
\* transaction of the first chunk
Truncate_OwnTransaction(p) ==
  /\ ld[p].pc = "truncate"
  /\ LET s == ld[p]
     IN /\ ld' = [ld EXCEPT ![p] =
                    [s EXCEPT !.truncs = Append(@, s.chunk_count), !.pc = "copy"]]
        /\ table' = [table EXCEPT ![s.target_table] =
                       Committed(@, TruncateTable(s.txn))]
  /\ UNCHANGED <<open_txns, ex, view, blob, api, census, hd>>

\* lines 327-329: first chunk only, CALL truncate_table inside the transaction
Truncate(p) ==
  /\ ld[p].pc = "truncate"
  /\ LET s == ld[p]
     IN /\ ld' = [ld EXCEPT ![p] =
                    [s EXCEPT !.txn = TruncateTable(s.txn),
                              !.truncs = Append(@, s.chunk_count),
                              !.pc = "copy"]]
        /\ open_txns' = open_txns + Begins(s.txn)
  /\ UNCHANGED <<table, ex, view, blob, api, census, hd>>

\* lines 331-336: bulk insert of the serialized window
CopyFrom(p) ==
  /\ ld[p].pc = "copy"
  /\ LET s == ld[p]
     IN /\ ld' = [ld EXCEPT ![p] =
                    [s EXCEPT !.txn = CopyFromRows(s.txn, s.batch_df),
                              !.copies = Append(@, s.chunk_count),
                              !.pc = "commit"]]
        /\ open_txns' = open_txns + Begins(s.txn)
  /\ UNCHANGED <<table, ex, view, blob, api, census, hd>>

\* mutant of AfterCommit: the short-read exit is missing
AfterCommit_NoShortRead(s) == "loop"

\* where the loop goes after a committed chunk (lines 348-349)
AfterCommit(s) ==
  IF Len(s.batch_df) < s.chunk_size THEN "close" ELSE "loop"

\* mutant of Commit: the offset is not advanced by the committed rows
Commit_NoAdvance(p) ==
  /\ ld[p].pc = "commit"
  /\ LET s == ld[p]
     IN /\ table' = [table EXCEPT ![s.target_table] = Committed(@, s.txn)]
        /\ open_txns' = open_txns - Ends(s.txn)
        /\ ld' = [ld EXCEPT ![p] =
                    [s EXCEPT !.txn = NoTxn,
                              !.commits = Append(@, s.chunk_count),
                              !.pc = AfterCommit(s)]]
  /\ UNCHANGED <<ex, view, blob, api, census, hd>>

\* lines 337-341, 348-349: commit, count the rows, leave on a short read
Commit(p) ==
  /\ ld[p].pc = "commit"
  /\ LET s == ld[p]
     IN /\ table' = [table EXCEPT ![s.target_table] = Committed(@, s.txn)]
        /\ open_txns' = open_txns - Ends(s.txn)
        /\ ld' = [ld EXCEPT ![p] =
                    [s EXCEPT !.txn = NoTxn,
                              !.commits = Append(@, s.chunk_count),
                              !.total_rows_processed = @ + Len(s.batch_df),
                              !.pc = AfterCommit(s)]]
  /\ UNCHANGED <<ex, view, blob, api, census, hd>>

\* mutant of InsertFails: the handler commits what is pending instead of
\* rolling it back
InsertFails_Commits(p) ==
  /\ ld[p].pc \in {"truncate", "copy", "commit"}
  /\ LET s == ld[p]
     IN /\ ld' = [ld EXCEPT ![p] =
                    Raise([s EXCEPT !.failed_chunk = s.chunk_count,
                                    !.copies = IF s.pc = "copy"
                                               THEN Append(@, s.chunk_count) ELSE @],
                          "insert")]
        /\ table' = [table EXCEPT ![s.target_table] = Committed(@, s.txn)]
        /\ open_txns' = open_txns - Ends(s.txn)
  /\ UNCHANGED <<ex, view, blob, api, census, hd>>

\* mutant of InsertFails: the rollback drops the rows of the chunk but the
\* truncate has already taken effect
InsertFails_TruncateSticks(p) ==
  /\ ld[p].pc \in {"truncate", "copy", "commit"}
  /\ LET s == ld[p]
     IN /\ ld' = [ld EXCEPT ![p] =
                    Raise([s EXCEPT !.failed_chunk = s.chunk_count,
                                    !.copies = IF s.pc = "copy"
                                               THEN Append(@, s.chunk_count) ELSE @],
                          "insert")]
        /\ table' = [table EXCEPT ![s.target_table] =
                       IF s.txn.trunc THEN <<>> ELSE @]
        /\ open_txns' = open_txns - Ends(s.txn)
  /\ UNCHANGED <<ex, view, blob, api, census, hd>>

\* lines 343-346 then 356-360: the truncate, the bulk insert or the commit
\* raises; roll back, re-raise, close the connection, re-raise
InsertFails(p) ==
  /\ ld[p].pc \in {"truncate", "copy", "commit"}
  /\ LET s == ld[p]
     IN /\ ld' = [ld EXCEPT ![p] =
                    Raise([s EXCEPT !.failed_chunk = s.chunk_count,
                                    !.copies = IF s.pc = "copy"
                                               THEN Append(@, s.chunk_count) ELSE @],
                          "insert")]
        /\ open_txns' = open_txns - Ends(s.txn)
  /\ UNCHANGED <<table, ex, view, blob, api, census, hd>>

\* lines 351-354: pg_conn.close() after the loop, normal return
Close(p) ==
  /\ ld[p].pc = "close"
  /\ ld' = [ld EXCEPT ![p] = [@ EXCEPT !.pc = "done", !.conn = "closed",
                                       !.closes = @ + 1]]
  /\ UNCHANGED <<table, open_txns, ex, view, blob, api, census, hd>>

Next ==
  \E p \in Loaders :
    \/ Connect(p)
    \/ ConnectFails(p)
    \/ NextWindow(p)
    \/ CollectFails(p)
    \/ Truncate(p)
    \/ CopyFrom(p)
    \/ Commit(p)
    \/ InsertFails(p)
    \/ Close(p)

Spec == Init /\ [][Next]_vars

\* ------------------------------------------- export_clean_data_to_csv_chunked
\* Text is a sequence of one-character strings.  A cell of a view row is
\* None, a str or an int, as psycopg2 hands it over.
None == [kind |-> "none"]
S(chars) == [kind |-> "str", val |-> chars]
I(n) == [kind |-> "int", val |-> n]

Q == "\""
DigitChars == <<"0", "1", "2", "3", "4", "5", "6", "7", "8", "9">>

RECURSIVE NatStr(_)
NatStr(n) == IF n < 10 THEN <<DigitChars[n + 1]>>
             ELSE NatStr(n \div 10) \o <<DigitChars[(n % 10) + 1]>>

\* str(value), line 607 / 609
PyStr(cell) ==
  IF cell.kind = "str" THEN cell.val
  ELSE IF cell.val < 0 THEN <<"-">> \o NatStr(0 - cell.val)
  ELSE NatStr(cell.val)

Zeros(k) == [i \in 1..k |-> "0"]

\* str.zfill(width): pad with zeros on the left, after a leading sign
Zfill(t, width) ==
  IF Len(t) >= width THEN t
  ELSE IF t # <<>> /\ t[1] \in {"+", "-"}
       THEN <<t[1]>> \o Zeros(width - Len(t)) \o Tail(t)
       ELSE Zeros(width - Len(t)) \o t

\* str.replace('"', '""'), line 612
RECURSIVE ReplaceQuotes(_)
ReplaceQuotes(t) ==
  IF t = <<>> THEN <<>>
  ELSE (IF t[1] = Q THEN <<Q, Q>> ELSE <<t[1]>>) \o ReplaceQuotes(Tail(t))

\* sep.join(parts)
RECURSIVE Join(_, _)
Join(parts, sep) ==
  IF parts = <<>> THEN <<>>
  ELSE IF Len(parts) = 1 THEN parts[1]
  ELSE parts[1] \o <<sep>> \o Join(Tail(parts), sep)

\* lines 557-573
Headers ==
  << <<"n", "p", "i">>,
     <<"e", "n", "t", "i", "t", "y", "_", "t", "y", "p", "e">>,
     <<"e", "n", "t", "i", "t", "y", "_", "n", "a", "m", "e">>,
     <<"p", "r", "o", "v", "i", "d", "e", "r", "_", "l", "o", "c", "a", "t", "i", "o", "n", "_", "a", "d", "d", "r", "e", "s", "s", "_", "1">>,
     <<"p", "r", "o", "v", "i", "d", "e", "r", "_", "l", "o", "c", "a", "t", "i", "o", "n", "_", "a", "d", "d", "r", "e", "s", "s", "_", "2">>,
     <<"p", "r", "o", "v", "i", "d", "e", "r", "_", "c", "i", "t", "y">>,
     <<"p", "r", "o", "v", "i", "d", "e", "r", "_", "s", "t", "a", "t", "e">>,
     <<"p", "r", "o", "v", "i", "d", "e", "r", "_", "p", "o", "s", "t", "a", "l", "_", "c", "o", "d", "e", "_", "c", "l", "e", "a", "n">>,
     <<"c", "o", "u", "n", "t", "y", "_", "n", "a", "m", "e">>,
     <<"s", "t", "a", "t", "e", "_", "n", "a", "m", "e">>,
     <<"p", "r", "i", "m", "a", "r", "y", "_", "t", "a", "x", "o", "n", "o", "m", "y", "_", "c", "o", "d", "e">>,
     <<"t", "a", "x", "o", "n", "o", "m", "y", "_", "g", "r", "o", "u", "p", "i", "n", "g">>,
     <<"t", "a", "x", "o", "n", "o", "m", "y", "_", "c", "l", "a", "s", "s", "i", "f", "i", "c", "a", "t", "i", "o", "n">>,
     <<"t", "a", "x", "o", "n", "o", "m", "y", "_", "s", "p", "e", "c", "i", "a", "l", "i", "z", "a", "t", "i", "o", "n">>,
     <<"d", "a", "t", "a", "_", "q", "u", "a", "l", "i", "t", "y", "_", "s", "c", "o", "r", "e">> >>

PostalColumn == <<"p", "r", "o", "v", "i", "d", "e", "r", "_", "p", "o", "s", "t", "a", "l", "_", "c", "o", "d", "e", "_", "c", "l", "e", "a", "n">>

\* line 574
HeaderLine == Join([i \in 1..Len(Headers) |-> <<Q>> \o Headers[i] \o <<Q>>], ",")

\* mutant of EscapeField: every column is zero-filled, not the postal one only
EscapeField_PadsEveryColumn(i, value) ==
  IF value.kind = "none" THEN <<Q, Q>>
  ELSE <<Q>> \o ReplaceQuotes(Zfill(PyStr(value), 5)) \o <<Q>>

\* lines 598-613: one field of a data line
EscapeField(i, value) ==
  IF value.kind = "none" THEN <<Q, Q>>
  ELSE LET str_value == IF Headers[i] = PostalColumn
                        THEN Zfill(PyStr(value), 5)
                        ELSE PyStr(value)
       IN <<Q>> \o ReplaceQuotes(str_value) \o <<Q>>

\* lines 596-614: one data line
RenderRow(row) == Join([i \in 1..Len(row) |-> EscapeField(i, row[i])], ",")

\* get_export_chunk(limit, offset): the store-side paginated reader returns
\* at most `limit` rows of the view after skipping `offset` rows.
GetExportChunk(v, limit, offset) ==
  IF offset >= Len(v) THEN <<>>
  ELSE SubSeq(v, offset + 1, Min(offset + limit, Len(v)))

\* Rows of the export view used by the model: row i has npi i, and names and
\* postal codes that cycle through the interesting shapes.
NamePool == << None, S(<<"A", "c", "m", "e">>), S(<<"A", Q, "b">>), S(<<"x">>) >>
PostalPool == << S(<<"5", "0", "1">>), None, S(<<"-", "1", "2">>),
                 S(<<"1", "2", "3", "4", "5", "6", "7", "8", "9">>), I(501),
                 S(<<"1", "2", "3", "4", "5">>) >>
Cycle(pool, i) == pool[((i - 1) % Len(pool)) + 1]
ViewRow(i) ==
  << I(i), S(<<"1">>), Cycle(NamePool, i), S(<<"1", " ", "M", "a", "i", "n">>), None,
     S(<<"c">>), S(<<"N", "Y">>), Cycle(PostalPool, i), S(<<"k">>), S(<<"N", "Y">>),
     S(<<"t">>), None, S(<<"g">>), None, I(i % 3) >>
View(m) == [i \in 1..m |-> ViewRow(i)]

\* mutant of ReturnFalse: the handler returns False without closing
ReturnFalse_NoClose(e, kind) ==
  [e EXCEPT !.pc = "done", !.result = "False", !.failure = kind]

\* lines 642-646: the handler closes the connection if one was acquired and
\* returns False.  Closing a connection ends its transaction.
ReturnFalse(e, kind) ==
  [e EXCEPT !.pc = "done", !.result = "False", !.failure = kind, !.txn = FALSE,
            !.conn = IF e.conn = "open" THEN "closed" ELSE e.conn,
            !.closes = IF e.conn = "open" THEN e.closes + 1 ELSE e.closes]

\* mutant of ExConnect: the content starts empty, without the header line
ExConnect_NoHeader ==
  /\ ex.pc = "start"
  /\ ex' = [ex EXCEPT !.pc = "page", !.conn = "open",
                      !.csv_content = <<>>,
                      !.processed_count = 0, !.chunk_start = 0]
  /\ UNCHANGED <<ld, table, open_txns, view, blob, api, census, hd>>

\* lines 550-577: connect, start the content with the header line
ExConnect ==
  /\ ex.pc = "start"
  /\ ex' = [ex EXCEPT !.pc = "page", !.conn = "open",
                      !.csv_content = <<HeaderLine>>,
                      !.processed_count = 0, !.chunk_start = 0]
  /\ UNCHANGED <<ld, table, open_txns, view, blob, api, census, hd>>

\* lines 114-126, 642-646: the connection cannot be made
ExConnectFails ==
  /\ ex.pc = "start"
  /\ ex' = ReturnFalse(ex, "connect")
  /\ UNCHANGED <<ld, table, open_txns, view, blob, api, census, hd>>

\* mutant of AfterPage: the loop ends on an empty page only
AfterPage_EmptyOnly(e, got) ==
  IF got = 0 THEN "close" ELSE "page"

\* where the loop goes after a page of `got` rows (lines 589-591, 621-622)
AfterPage(e, got) ==
  IF got = 0 THEN "close"
  ELSE IF got < e.chunk_size THEN "close"
  ELSE "page"

\* mutant of NextStart: the cursor is not moved
NextStart_NoAdvance(e, got) ==
  e.chunk_start

\* the cursor after a page of `got` rows (line 617; not reached on an empty page)
NextStart(e, got) ==
  IF got = 0 THEN e.chunk_start ELSE e.chunk_start + e.chunk_size

\* mutant of ReadPage: the content so far is uploaded after every page
ReadPage_UploadsEachPage ==
  /\ ex.pc = "page"
  /\ LET rows == GetExportChunk(view, ex.chunk_size, ex.chunk_start)
         got == Len(rows)
         content == ex.csv_content \o [i \in 1..got |-> RenderRow(rows[i])]
     IN /\ ex' = [ex EXCEPT
                    !.calls = Append(@, [limit |-> ex.chunk_size,
                                         offset |-> ex.chunk_start, got |-> got]),
                    !.txn = TRUE,
                    !.csv_content = content,
                    !.processed_count = @ + got,
                    !.chunk_start = NextStart(ex, got),
                    !.upload_calls = @ + 1,
                    !.pc = AfterPage(ex, got)]
        /\ blob' = [present |-> TRUE, data |-> Join(content, "\n")]
  /\ open_txns' = open_txns + (IF ex.txn THEN 0 ELSE 1)
  /\ UNCHANGED <<ld, table, view, api, census, hd>>

\* lines 578-622: one iteration of the loop, read and render a page
ReadPage ==
  /\ ex.pc = "page"
  /\ LET rows == GetExportChunk(view, ex.chunk_size, ex.chunk_start)
         got == Len(rows)
     IN ex' = [ex EXCEPT
                 !.calls = Append(@, [limit |-> ex.chunk_size,
                                      offset |-> ex.chunk_start, got |-> got]),
                 !.txn = TRUE,
                 !.csv_content = @ \o [i \in 1..got |-> RenderRow(rows[i])],
                 !.processed_count = @ + got,
                 !.chunk_start = NextStart(ex, got),
                 !.pc = AfterPage(ex, got)]
  /\ open_txns' = open_txns + (IF ex.txn THEN 0 ELSE 1)
  /\ UNCHANGED <<ld, table, view, blob, api, census, hd>>

\* lines 583-587 raising, then 642-646
ReadFails ==
  /\ ex.pc = "page"
  /\ ex' = ReturnFalse([ex EXCEPT !.calls = Append(@, [limit |-> ex.chunk_size,
                                                      offset |-> ex.chunk_start,
                                                      got |-> -1])],
                       "read")
  /\ open_txns' = open_txns - (IF ex.txn THEN 1 ELSE 0)
  /\ UNCHANGED <<ld, table, view, blob, api, census, hd>>

\* line 624: pg_conn.close() after the loop
ExClose ==
  /\ ex.pc = "close"
  /\ ex' = [ex EXCEPT !.pc = "upload", !.conn = "closed", !.closes = @ + 1,
                      !.txn = FALSE]
  /\ open_txns' = open_txns - (IF ex.txn THEN 1 ELSE 0)
  /\ UNCHANGED <<ld, table, view, blob, api, census, hd>>

\* lines 627-637 with 370-387: join the lines, upload them as one blob
Upload ==
  /\ ex.pc = "upload"
  /\ blob' = [present |-> TRUE, data |-> Join(ex.csv_content, "\n")]
  /\ ex' = [ex EXCEPT !.pc = "done", !.upload_calls = @ + 1, !.result = "True"]
  /\ UNCHANGED <<ld, table, open_txns, view, api, census, hd>>

\* lines 388-390 then 638-640: the upload raises inside
\* upload_csv_to_azure_blob, which returns the error text
UploadFails ==
  /\ ex.pc = "upload"
  /\ ex' = [ex EXCEPT !.pc = "done", !.upload_calls = @ + 1, !.result = "False",
                      !.failure = "upload"]
  /\ UNCHANGED <<ld, table, open_txns, view, blob, api, census, hd>>

NextExport ==
  \/ ExConnect
  \/ ExConnectFails
  \/ ReadPage
  \/ ReadFails
  \/ ExClose
  \/ Upload
  \/ UploadFails

InitExport ==
  /\ ld = [p \in Loaders |-> IdleLoader]
  /\ table = [t \in Tables |-> <<>>]
  /\ open_txns = 0
  /\ \E m \in 0..MaxView : view = View(m)
  /\ blob \in {NoBlob, StaleBlob}
  /\ api = IdleApi
  /\ census = <<>>
  /\ hd = IdleHandler
  /\ \E c \in 1..MaxPage : ex = NewExporter(c)

SpecExport == InitExport /\ [][NextExport]_vars

\* -------------------------------------------------------------- load_api_data
\* A data row of the snapshot is <<NAME, B01001_001E, state, county>>, the
\* four retained columns in db_columns order (lines 30-40); a cell is None
\* or a str.
IsDigit(ch) == ch \in {"0", "1", "2", "3", "4", "5", "6", "7", "8", "9"}
DigitValue(ch) == CHOOSE d \in 0..9 : DigitChars[d + 1] = ch

RECURSIVE DropZeros(_)
DropZeros(t) == IF Len(t) > 1 /\ Head(t) = "0" THEN DropZeros(Tail(t)) ELSE t

RECURSIVE NatValue(_)
NatValue(t) == IF t = <<>> THEN 0
               ELSE NatValue(SubSeq(t, 1, Len(t) - 1)) * 10 + DigitValue(t[Len(t)])

\* t <= u for two digit strings of the same length
RECURSIVE DigitsLeq(_, _)
DigitsLeq(t, u) ==
  IF t = <<>> THEN TRUE
  ELSE IF Head(t) = Head(u) THEN DigitsLeq(Tail(t), Tail(u))
  ELSE DigitValue(Head(t)) < DigitValue(Head(u))

Int32Max == <<"2", "1", "4", "7", "4", "8", "3", "6", "4", "7">>

\* line 43: cast(polars.Int32, strict=False) of a str column: the decimal
\* value, or null when the text is not an integer or does not fit 32 bits
CastInt32(cell) ==
  IF cell.kind = "none" THEN None
  ELSE LET t == cell.val
           signed == t # <<>> /\ Head(t) \in {"+", "-"}
           digits == IF signed THEN Tail(t) ELSE t
           d == DropZeros(digits)
       IN IF digits = <<>> \/ \E i \in 1..Len(digits) : ~IsDigit(digits[i]) THEN None
          ELSE IF Len(d) > 10 \/ (Len(d) = 10 /\ ~DigitsLeq(d, Int32Max)) THEN None
          ELSE I(IF signed /\ Head(t) = "-" THEN 0 - NatValue(d) ELSE NatValue(d))

\* mutant of NoNull: only the population is required
NoNull_PopulationOnly(row) == row[2].kind # "none"

\* lines 46-51: no null in any of the four columns
NoNull(row) == \A i \in 1..Len(row) : row[i].kind # "none"

IsSpace(ch) == ch \in {" ", "\t", "\n", "\r"}
RECURSIVE LStrip(_)
LStrip(t) == IF t # <<>> /\ IsSpace(Head(t)) THEN LStrip(Tail(t)) ELSE t
RECURSIVE RStrip(_)
RStrip(t) == IF t # <<>> /\ IsSpace(t[Len(t)]) THEN RStrip(SubSeq(t, 1, Len(t) - 1)) ELSE t
\* str.strip() / str.strip_chars()
Strip(t) == RStrip(LStrip(t))

\* lines 54-59: cast(str).fill_null("").str.strip_chars() of one cell
CleanCell(cell) == IF cell.kind = "none" THEN <<>> ELSE Strip(PyStr(cell))

\* lines 62-67: some field is not empty
NotBlank(fields) == \E i \in 1..Len(fields) : Len(fields[i]) > 0

\* write_csv quotes a field that holds the separator, a quote or a line break
NeedsQuotes(t) == \E i \in 1..Len(t) : t[i] \in {"\t", Q, "\n", "\r"}
CsvField(t) == IF NeedsQuotes(t) THEN <<Q>> \o ReplaceQuotes(t) \o <<Q>> ELSE t

\* lines 70-72: write_csv(separator="\t", include_header=False)
RECURSIVE WriteCsv(_)
WriteCsv(frame) ==
  IF frame = <<>> THEN <<>>
  ELSE Join([i \in 1..Len(Head(frame)) |-> CsvField(Head(frame)[i])], "\t")
         \o <<"\n">> \o WriteCsv(Tail(frame))

\* str.split(sep)
RECURSIVE SplitOn(_, _)
SplitOn(t, sep) ==
  IF \A i \in 1..Len(t) : t[i] # sep THEN <<t>>
  ELSE LET k == CHOOSE i \in 1..Len(t) : t[i] = sep /\ \A j \in 1..(i - 1) : t[j] # sep
       IN <<SubSeq(t, 1, k - 1)>> \o SplitOn(SubSeq(t, k + 1, Len(t)), sep)

\* the lines of a text, a final line break ending the last line
SplitLines(t) ==
  LET pieces == SplitOn(t, "\n")
  IN IF pieces[Len(pieces)] = <<>> THEN SubSeq(pieces, 1, Len(pieces) - 1) ELSE pieces

\* line 78: the test of the list comprehension
KeepLine(line) == Strip(line) # <<>> /\ Len(SplitOn(line, "\t")) = 4

\* lines 27-79: the frame after the casts and filters, written and re-read
CleanedLines(rows) ==
  LET cast == [i \in 1..Len(rows) |->
                 [rows[i] EXCEPT ![2] = CastInt32(rows[i][2])]]
      kept == SelectSeq(cast, NoNull)
      text == [i \in 1..Len(kept) |-> [j \in 1..4 |-> CleanCell(kept[i][j])]]
      frame == SelectSeq(text, NotBlank)
  IN SelectSeq(SplitLines(WriteCsv(frame)), KeepLine)

\* line 80
CleanOutput(lines) == Join(lines, "\n") \o <<"\n">>

\* copy_from(..., sep="\t", null=""): what COPY makes of one line
CopyFields(line) ==
  LET f == SplitOn(line, "\t")
  IN [i \in 1..Len(f) |-> IF f[i] = <<>> THEN None ELSE S(f[i])]
\* COPY accepts the text when every line has the four columns
CopyAccepts(text) ==
  \A i \in 1..Len(SplitLines(text)) : Len(SplitOn(SplitLines(text)[i], "\t")) = 4
CopyRowsOf(text) == [i \in 1..Len(SplitLines(text)) |-> CopyFields(SplitLines(text)[i])]

\* lines 100-104: close the connection if one was acquired, re-raise
ApiRaise(a, kind) ==
  [a EXCEPT !.pc = "raised", !.failure = kind, !.txn = <<>>, !.in_txn = FALSE,
            !.conn = IF a.conn = "open" THEN "closed" ELSE a.conn,
            !.closes = IF a.conn = "open" THEN a.closes + 1 ELSE a.closes]

\* lines 24-80: build the frame, clean it, render the lines to load
ApiClean ==
  /\ api.pc = "start" /\ api.rows # <<>>
  /\ api' = [api EXCEPT !.pc = "connect", !.cleaned_lines = CleanedLines(api.rows)]
  /\ UNCHANGED <<ld, table, open_txns, ex, view, blob, census, hd>>

\* lines 27, 36: without data rows the frame has no columns and the rename raises
ApiFrameFails ==
  /\ api.pc = "start" /\ api.rows = <<>>
  /\ api' = ApiRaise(api, "frame")
  /\ UNCHANGED <<ld, table, open_txns, ex, view, blob, census, hd>>

\* line 84
ApiConnect ==
  /\ api.pc = "connect"
  /\ api' = [api EXCEPT !.pc = "copy", !.conn = "open"]
  /\ UNCHANGED <<ld, table, open_txns, ex, view, blob, census, hd>>

\* lines 114-126, 100-104
ApiConnectFails ==
  /\ api.pc = "connect"
  /\ api' = ApiRaise(api, "connect")
  /\ UNCHANGED <<ld, table, open_txns, ex, view, blob, census, hd>>

\* lines 88-90: the bulk insert of all the lines, no truncate before it
ApiCopy ==
  /\ api.pc = "copy"
  /\ CopyAccepts(CleanOutput(api.cleaned_lines))
  /\ api' = [api EXCEPT !.pc = "commit", !.in_txn = TRUE,
                        !.txn = CopyRowsOf(CleanOutput(api.cleaned_lines))]
  /\ open_txns' = open_txns + (IF api.in_txn THEN 0 ELSE 1)
  /\ UNCHANGED <<ld, table, ex, view, blob, census, hd>>

\* line 91
ApiCommit ==
  /\ api.pc = "commit"
  /\ census' = census \o api.txn
  /\ api' = [api EXCEPT !.pc = "close", !.txn = <<>>, !.in_txn = FALSE,
                        !.commits = @ + 1]
  /\ open_txns' = open_txns - (IF api.in_txn THEN 1 ELSE 0)
  /\ UNCHANGED <<ld, table, ex, view, blob, hd>>

\* lines 93-96 then 100-104: the bulk insert or the commit raises
ApiCopyFails ==
  /\ api.pc \in {"copy", "commit"}
  /\ api' = ApiRaise(api, "insert")
  /\ open_txns' = open_txns - (IF api.in_txn THEN 1 ELSE 0)
  /\ UNCHANGED <<ld, table, ex, view, blob, census, hd>>

\* line 98
ApiClose ==
  /\ api.pc = "close"
  /\ api' = [api EXCEPT !.pc = "done", !.conn = "closed", !.closes = @ + 1]
  /\ UNCHANGED <<ld, table, open_txns, ex, view, blob, census, hd>>

NextApi ==
  \/ ApiClean
  \/ ApiFrameFails
  \/ ApiConnect
  \/ ApiConnectFails
  \/ ApiCopy
  \/ ApiCommit
  \/ ApiCopyFails
  \/ ApiClose

\* Data rows used by the model; row i has county i.
ApiNames == << S(<<"A", ",", " ", "A", "L">>), S(<<"B">>), None,
               S(<<"T", "\t", "C">>), S(<<" ", "P", " ">>), S(<<"N", "\n", "M">>),
               S(<<"G">>), S(<<"Q", Q>>) >>
ApiPopulations == << S(<<"5", "8">>), S(<<"a", "b", "c">>), S(<<"1", "0">>), S(<<"2", "0">>),
                     S(<<"0", "0", "7">>), S(<<"3", "0">>),
                     S(<<"3", "0", "0", "0", "0", "0", "0", "0", "0", "0">>), S(<<"5">>) >>
ApiRow(i) ==
  << Cycle(ApiNames, i), Cycle(ApiPopulations, i), S(<<"0", "1">>), S(NatStr(i)) >>
\* the rows picked by a set of indices, in index order
RECURSIVE ApiRowsOf(_)
ApiRowsOf(picked) ==
  IF picked = {} THEN <<>>
  ELSE LET i == CHOOSE k \in picked : \A j \in picked : k <= j
       IN <<ApiRow(i)>> \o ApiRowsOf(picked \ {i})

CensusBefore == << <<S(<<"o", "l", "d">>), S(<<"1">>), S(<<"0", "1">>), S(<<"0">>)>> >>

InitApi ==
  /\ ld = [p \in Loaders |-> IdleLoader]
  /\ table = [t \in Tables |-> <<>>]
  /\ open_txns = 0
  /\ ex = IdleExporter
  /\ view = <<>>
  /\ blob = NoBlob
  /\ hd = IdleHandler
  /\ census \in {<<>>, CensusBefore}
  /\ \E picked \in SUBSET (1..MaxApiRows) : api = NewApi(ApiRowsOf(picked), census)

SpecApi == InitApi /\ [][NextApi]_vars

\* -------------------------------------------------------- NPPES_Data_Cleaning
\* lines 536-538: any exception becomes the error response
Respond500(h, cause) ==
  [h EXCEPT !.pc = "returned", !.status = 500, !.responses = @ + 1, !.cause = cause]

\* lines 533-535: the success response
Respond200(h) ==
  [h EXCEPT !.pc = "returned", !.status = 200, !.responses = @ + 1]

\* line 397 then 398: the snapshot is fetched and load_api_data is called
Fetch ==
  /\ hd.pc = "fetch"
  /\ \E picked \in {{}, {1, 2}} : api' = NewApi(ApiRowsOf(picked), census)
  /\ hd' = [hd EXCEPT !.pc = "api", !.steps = Append(@, "snapshot")]
  /\ UNCHANGED <<ld, table, open_txns, ex, view, blob, census>>

\* mutant of FetchFails: the failure is swallowed and an empty snapshot loaded
FetchFails_LoadsEmpty ==
  /\ hd.pc = "fetch"
  /\ api' = NewApi(<<>>, census)
  /\ hd' = [hd EXCEPT !.pc = "api", !.cause = "fetch"]
  /\ UNCHANGED <<ld, table, open_txns, ex, view, blob, census>>

\* lines 16-20: the request or raise_for_status raises
FetchFails ==
  /\ hd.pc = "fetch"
  /\ hd' = Respond500(hd, "fetch")
  /\ UNCHANGED <<ld, table, open_txns, ex, view, blob, api, census>>

\* line 398 returned
AfterApi ==
  /\ hd.pc = "api" /\ api.pc = "done"
  /\ hd' = [hd EXCEPT !.pc = "body"]
  /\ UNCHANGED <<ld, table, open_txns, ex, view, blob, api, census>>

\* line 398 raised
ApiRaised ==
  /\ hd.pc = "api" /\ api.pc = "raised"
  /\ hd' = Respond500(hd, "snapshot")
  /\ UNCHANGED <<ld, table, open_txns, ex, view, blob, api, census>>

\* lines 400, 519-523: the request body and its export options
GetJson ==
  /\ hd.pc = "body"
  /\ \E e \in BOOLEAN, c \in 1..HandlerChunk :
       /\ ~e => c = 1
       /\ hd' = [hd EXCEPT !.pc = "extract", !.source = 1,
                           !.export_csv = e, !.csv_chunk_size = c]
  /\ UNCHANGED <<ld, table, open_txns, ex, view, blob, api, census>>

\* line 400: the body is not JSON
GetJsonFails ==
  /\ hd.pc = "body"
  /\ hd' = Respond500(hd, "body")
  /\ UNCHANGED <<ld, table, open_txns, ex, view, blob, api, census>>

\* mutant of AfterSource: the last source is left out
AfterSource_SkipsLast(h) ==
  IF h.source < Len(SourceTables) - 1
  THEN [h EXCEPT !.pc = "extract", !.source = @ + 1]
  ELSE [h EXCEPT !.pc = "transform"]

\* after source k: the next source, or the transformation after the last
AfterSource(h) ==
  IF h.source < Len(SourceTables)
  THEN [h EXCEPT !.pc = "extract", !.source = @ + 1]
  ELSE [h EXCEPT !.pc = "transform"]

\* lines 405-409 (441-450, 463-472, 496-505): the extractor returns a lazy
\* dataset and the chunked loader is called with it
Extract ==
  /\ hd.pc = "extract"
  /\ \E n \in 0..MaxSrcRows :
       ld' = [ld EXCEPT !["A"] = NewLoader(Dataset(n), SourceTables[hd.source],
                                           HandlerChunk, table[SourceTables[hd.source]])]
  /\ hd' = [hd EXCEPT !.pc = "load", !.steps = Append(@, "load")]
  /\ UNCHANGED <<table, open_txns, ex, view, blob, api, census>>

\* lines 150-159 (284-290) then 407-409: scan, select and rename only build a
\* plan, so over a source that lacks a requested column or does not parse the
\* extractor still returns a dataset, and the chunked loader is called with it
ExtractDeferred ==
  /\ hd.pc = "extract"
  /\ ld' = [ld EXCEPT !["A"] = NewLoader(Dataset(0), SourceTables[hd.source],
                                         HandlerChunk, table[SourceTables[hd.source]])]
  /\ hd' = [hd EXCEPT !.pc = "load", !.defect = hd.source, !.steps = Append(@, "load")]
  /\ UNCHANGED <<table, open_txns, ex, view, blob, api, census>>

\* lines 161-163, 292-294 then 406 (447, 469, 502): the download or the scan
\* raised inside the extractor, which returns None, and the load of this
\* source is skipped
ExtractAbsent ==
  /\ hd.pc = "extract"
  /\ hd' = AfterSource([hd EXCEPT !.skipped = Append(@, hd.source)])
  /\ UNCHANGED <<ld, table, open_txns, ex, view, blob, api, census>>

\* the chunked load of the current source returned
AfterLoad ==
  /\ hd.pc = "load" /\ ld["A"].pc = "done"
  /\ hd' = AfterSource([hd EXCEPT !.loaded = Append(@, hd.source),
                                  !.as_loaded[SourceTables[hd.source]] =
                                     table[SourceTables[hd.source]]])
  /\ UNCHANGED <<ld, table, open_txns, ex, view, blob, api, census>>

\* mutant of LoadRaised: the failure is noted and the next source is loaded
LoadRaised_Continues ==
  /\ hd.pc = "load" /\ ld["A"].pc = "raised"
  /\ hd' = AfterSource([hd EXCEPT !.cause = "load"])
  /\ UNCHANGED <<ld, table, open_txns, ex, view, blob, api, census>>

\* the chunked load of the current source raised
LoadRaised ==
  /\ hd.pc = "load" /\ ld["A"].pc = "raised"
  /\ hd' = Respond500(hd, "load")
  /\ UNCHANGED <<ld, table, open_txns, ex, view, blob, api, census>>

\* line 509
TransformConnect ==
  /\ hd.pc = "transform"
  /\ hd' = [hd EXCEPT !.pc = "clean", !.tconn = "open", !.steps = Append(@, "transform")]
  /\ UNCHANGED <<ld, table, open_txns, ex, view, blob, api, census>>

\* line 509 raising
TransformConnectFails ==
  /\ hd.pc = "transform"
  /\ hd' = Respond500([hd EXCEPT !.steps = Append(@, "transform")], "transform")
  /\ UNCHANGED <<ld, table, open_txns, ex, view, blob, api, census>>

\* line 512: CALL clean_and_populate_nppes_data()
CleanAndPopulate ==
  /\ hd.pc = "clean"
  /\ hd' = [hd EXCEPT !.pc = "create_view", !.ttxn = TRUE]
  /\ open_txns' = open_txns + (IF hd.ttxn THEN 0 ELSE 1)
  /\ UNCHANGED <<ld, table, ex, view, blob, api, census>>

\* line 513: CALL create_export_view(); the view it defines is pending
CreateExportView ==
  /\ hd.pc = "create_view"
  /\ \E m \in 0..MaxSrcRows : hd' = [hd EXCEPT !.pc = "tcommit", !.pending_view = View(m)]
  /\ UNCHANGED <<ld, table, open_txns, ex, view, blob, api, census>>

\* line 514
TransformCommit ==
  /\ hd.pc = "tcommit"
  /\ view' = hd.pending_view
  /\ hd' = [hd EXCEPT !.pc = "tclose", !.ttxn = FALSE, !.pending_view = <<>>,
                      !.steps = Append(@, "transformed")]
  /\ open_txns' = open_txns - (IF hd.ttxn THEN 1 ELSE 0)
  /\ UNCHANGED <<ld, table, ex, blob, api, census>>

\* lines 512-514 raising: the exception leaves the with block and reaches
\* line 536; nothing rolls back or closes the connection
TransformFails ==
  /\ hd.pc \in {"clean", "create_view", "tcommit"}
  /\ hd' = Respond500(hd, "transform")
  /\ UNCHANGED <<ld, table, open_txns, ex, view, blob, api, census>>

\* lines 515-527: close, then start the export if the body asks for it
TransformClose ==
  /\ hd.pc = "tclose"
  /\ IF hd.export_csv
     THEN /\ ex' = NewExporter(hd.csv_chunk_size)
          /\ hd' = [hd EXCEPT !.pc = "export", !.tconn = "closed", !.tcloses = @ + 1,
                              !.steps = Append(@, "export")]
     ELSE /\ ex' = ex
          /\ hd' = Respond200([hd EXCEPT !.tconn = "closed", !.tcloses = @ + 1])
  /\ UNCHANGED <<ld, table, open_txns, view, blob, api, census>>

\* mutant of AfterExport: a failed export aborts the invocation
AfterExport_FailureAborts ==
  /\ hd.pc = "export" /\ ex.pc = "done"
  /\ hd' = IF ex.result = "True" THEN Respond200(hd) ELSE Respond500(hd, "export")
  /\ UNCHANGED <<ld, table, open_txns, ex, view, blob, api, census>>

\* lines 528-535: the exporter returned, True or False; the response is 200
AfterExport ==
  /\ hd.pc = "export" /\ ex.pc = "done"
  /\ hd' = Respond200(hd)
  /\ UNCHANGED <<ld, table, open_txns, ex, view, blob, api, census>>

HandlerStep ==
  \/ Fetch
  \/ FetchFails
  \/ AfterApi
  \/ ApiRaised
  \/ GetJson
  \/ GetJsonFails
  \/ Extract
  \/ ExtractDeferred
  \/ ExtractAbsent
  \/ AfterLoad
  \/ LoadRaised
  \/ TransformConnect
  \/ TransformConnectFails
  \/ CleanAndPopulate
  \/ CreateExportView
  \/ TransformCommit
  \/ TransformFails
  \/ TransformClose
  \/ AfterExport

NextHandler ==
  \/ HandlerStep
  \/ NextApi
  \/ Next
  \/ NextExport

InitHandler ==
  /\ ld = [p \in Loaders |-> IdleLoader]
  /\ table = [t \in SourceTableSet |-> OldRows]
  /\ open_txns = 0
  /\ ex = IdleExporter
  /\ view = <<>>
  /\ blob = StaleBlob
  /\ api = IdleApi
  /\ census = CensusBefore
  /\ hd = [IdleHandler EXCEPT !.pc = "fetch",
                              !.as_loaded = [t \in SourceTableSet |-> OldRows]]

SpecHandler == InitHandler /\ [][NextHandler]_vars

\* ------------------------------------------------ two concurrent chunked loads
\* the dataset of the second invocation: rows distinct from the first one's
RaceDataset(m) == [i \in 1..m |-> 10 + i]

\* the table both invocations load (line 413)
RaceTable == "zip_county"

\* two invocations of load_chunked_blob_data_to_postgres have been called
\* with the same target table; nothing in lines 297-360 makes one wait for
\* the other, so their steps interleave freely
InitRace ==
  /\ table = [t \in Tables |-> OldRows]
  /\ open_txns = 0
  /\ ex = IdleExporter
  /\ view = <<>>
  /\ blob = NoBlob
  /\ api = IdleApi
  /\ census = <<>>
  /\ hd = IdleHandler
  /\ \E n \in 0..MaxRaceRows, m \in 0..MaxRaceRows, c \in 1..MaxRaceChunk, d \in 1..MaxRaceChunk :
       ld = [p \in Loaders |->
               IF p = "A" THEN NewLoader(Dataset(n), RaceTable, c, OldRows)
                          ELSE NewLoader(RaceDataset(m), RaceTable, d, OldRows)]

SpecRace == InitRace /\ [][Next]_vars

\* ------------------------------------------------------------------ termination
\* one operation has been called, a chunked load or an export, and runs to
\* its end: neither function suspends, waits or can be cancelled, so a step
\* that can be taken is eventually taken
InitTerm == Init \/ InitExport

NextTerm ==
  \/ Next
  \/ NextExport

SpecTerm == InitTerm /\ [][NextTerm]_vars /\ WF_vars(Next) /\ WF_vars(NextExport)

\* =================================================================== claims
\* the loader invocations that ran (every one but an idle slot)
Ran == {p \in Loaders : ld[p].pc # "idle"}
Rows(p) == Len(ld[p].dataset)
Target(p) == table[ld[p].target_table]
NonEmpty(ws) == {i \in 1..Len(ws) : ws[i].len > 0}
LastWindow(p) == ld[p].windows[Len(ld[p].windows)]

\* The reference of C3: truncate the table, then load the whole dataset as
\* one chunk in one transaction.
TruncateAndLoad(content, ds) ==
  Committed(content, CopyFromRows(TruncateTable(NoTxn), ds))

\* C1 (as stated): a load that returns normally into a table other than the
\* capped one has materialized exactly ceil(n/c) windows, whose lengths sum
\* to n.
C1_Original ==
  \A p \in Ran :
    (ld[p].pc = "done" /\ ld[p].target_table # DemoLimitTable) =>
      /\ Len(ld[p].windows) = CeilDiv(Rows(p), ld[p].chunk_size)
      /\ SumLen(ld[p].windows) = Rows(p)

\* C1 (amended): such a load has materialized exactly floor(n/c) + 1
\* windows: ceil(n/c) non-empty ones and, when c divides n (n = 0
\* included), one trailing empty window; the window lengths sum to n.
C1_WindowCount ==
  \A p \in Ran :
    (ld[p].pc = "done" /\ ld[p].target_table # DemoLimitTable) =>
      /\ Len(ld[p].windows) = (Rows(p) \div ld[p].chunk_size) + 1
      /\ Cardinality(NonEmpty(ld[p].windows)) = CeilDiv(Rows(p), ld[p].chunk_size)
      /\ (Rows(p) % ld[p].chunk_size = 0 <=> LastWindow(p).len = 0)
      /\ SumLen(ld[p].windows) = Rows(p)

C1_Witness ==
  \E p \in Ran :
    /\ ld[p].pc = "done" /\ ld[p].target_table # DemoLimitTable
    /\ Rows(p) = 6 /\ ld[p].chunk_size = 3
    /\ Len(ld[p].windows) = 3 /\ LastWindow(p).len = 0

\* C2: once the bulk insert of chunk k >= 2 has failed, the loader has
\* raised, the target table holds exactly the rows of chunks 1..k-1 of this
\* load, chunk k was attempted at most once, no later window was
\* materialized and no later chunk was inserted or committed.
C2_FailedChunk ==
  \A p \in Ran :
    ld[p].failed_chunk >= 2 =>
      LET k == ld[p].failed_chunk
          c == ld[p].chunk_size
      IN /\ ld[p].pc = "raised" /\ ld[p].failure = "insert"
         /\ Target(p) = SubSeq(ld[p].dataset, 1, (k - 1) * c)
         /\ \A r \in k * c - c + 1 .. Rows(p) :
              \A j \in 1..Len(Target(p)) : Target(p)[j] # ld[p].dataset[r]
         /\ ld[p].commits = [i \in 1..(k - 1) |-> i]
         /\ Cardinality({i \in 1..Len(ld[p].copies) : ld[p].copies[i] = k}) <= 1
         /\ \A i \in 1..Len(ld[p].copies) : ld[p].copies[i] <= k
         /\ Len(ld[p].windows) = k
         /\ ld[p].chunk_count = k

C2_Witness ==
  \E p \in Ran :
    /\ ld[p].failed_chunk = 3 /\ ld[p].pc = "raised"
    /\ Rows(p) = 5 /\ ld[p].chunk_size = 1
    /\ ld[p].before = OldRows
    /\ Target(p) = <<1, 2>>

\* C3 (as stated): after a normal return of a run the cap did not stop, the
\* target table holds exactly the dataset's rows in dataset order, which is
\* what truncate-then-load-as-one-chunk produces, whatever it held before.
C3_Original ==
  \A p \in Ran :
    (ld[p].pc = "done" /\ ~ld[p].capped) =>
      /\ Target(p) = ld[p].dataset
      /\ Target(p) = TruncateAndLoad(ld[p].before, ld[p].dataset)

\* C3 (amended): the same, for a dataset of at least one row.
C3_ChunkingTransparent ==
  \A p \in Ran :
    (ld[p].pc = "done" /\ ~ld[p].capped /\ Rows(p) >= 1) =>
      /\ Target(p) = ld[p].dataset
      /\ Target(p) = TruncateAndLoad(ld[p].before, ld[p].dataset)

C3_Witness ==
  \E p \in Ran :
    /\ ld[p].pc = "done" /\ ~ld[p].capped
    /\ Rows(p) = 5 /\ ld[p].chunk_size = 2
    /\ ld[p].before = OldRows
    /\ Target(p) = <<1, 2, 3, 4, 5>>

\* C4: the truncate procedure is invoked at most once per run and only for
\* chunk 1; it is pending in the transaction that carries chunk 1's rows, so
\* the table keeps its earlier content until that transaction commits; no
\* transaction of a later chunk carries a truncate.
C4_TruncateOnce ==
  \A p \in Ran :
    /\ Len(ld[p].truncs) <= 1
    /\ \A i \in 1..Len(ld[p].truncs) : ld[p].truncs[i] = 1
    /\ ld[p].txn.trunc => ld[p].chunk_count = 1
    /\ (ld[p].pc = "commit" /\ ld[p].chunk_count = 1) =>
         (ld[p].txn.trunc /\ ld[p].txn.rows = ld[p].batch_df)
    /\ ld[p].commits = <<>> => Target(p) = ld[p].before
    /\ (ld[p].commits # <<>>) => (ld[p].truncs = <<1>> /\ Target(p)[1] = ld[p].dataset[1])

C4_Witness ==
  \E p \in Ran :
    /\ ld[p].pc = "commit" /\ ld[p].chunk_count = 1
    /\ ld[p].txn.trunc /\ ld[p].txn.rows = <<1, 2>>
    /\ ld[p].truncs = <<1>>
    /\ Target(p) = OldRows

\* C5: at most one transaction is open at any time; window i is materialized
\* at offset (i-1)*c; the chunks commit in order 1, 2, ... and, once one has
\* committed, the table holds exactly the first total_rows_processed rows of
\* the dataset, each once, in order.
C5_OrderedPrefix ==
  /\ open_txns <= 1
  /\ \A p \in Ran :
       /\ \A i \in 1..Len(ld[p].windows) :
            ld[p].windows[i].offset = (i - 1) * ld[p].chunk_size
       /\ ld[p].commits = [i \in 1..Len(ld[p].commits) |-> i]
       /\ ld[p].commits # <<>> =>
            Target(p) = SubSeq(ld[p].dataset, 1, ld[p].total_rows_processed)
       /\ ld[p].total_rows_processed =
            SumLen(SubSeq(ld[p].windows, 1, Len(ld[p].commits)))

C5_Witness ==
  \E p \in Ran :
    /\ ld[p].pc = "commit" /\ ld[p].chunk_count = 3 /\ ld[p].chunk_size = 2
    /\ open_txns = 1
    /\ LastWindow(p).offset = 4
    /\ Target(p) = <<1, 2, 3, 4>>

\* C6: a window is empty exactly when its offset is at or past the end of
\* the dataset; it is shorter than c exactly when it reaches the end of the
\* dataset; every window followed by another has exactly c rows; and in a
\* run that returned normally without the cap, the short window is the last
\* one materialized.
C6_ShortRead ==
  \A p \in Ran :
    \A i \in 1..Len(ld[p].windows) :
      LET w == ld[p].windows[i]
          c == ld[p].chunk_size
      IN /\ (w.len = 0 <=> w.offset >= Rows(p))
         /\ (w.len < c <=> w.offset + c > Rows(p))
         /\ i < Len(ld[p].windows) => w.len = c
         /\ (ld[p].pc = "done" /\ ~ld[p].capped) =>
              (w.len < c <=> i = Len(ld[p].windows))

C6_Witness ==
  \E p \in Ran :
    /\ ld[p].pc = "done" /\ ~ld[p].capped
    /\ Rows(p) = 7 /\ ld[p].chunk_size = 3
    /\ ld[p].windows = <<[offset |-> 0, len |-> 3], [offset |-> 3, len |-> 3],
                         [offset |-> 6, len |-> 1]>>

\* the ways a load can end that C7 names
C7_CapSide(p) ==
  ld[p].target_table = DemoLimitTable =>
    /\ Len(ld[p].commits) <= DemoLimitChunk - 1
    /\ ld[p].total_rows_processed <= (DemoLimitChunk - 1) * ld[p].chunk_size
    /\ ld[p].capped =>
         /\ ld[p].pc \in {"close", "done"} /\ ld[p].failure = "none"
         /\ ld[p].total_rows_processed < Rows(p)
         /\ Len(ld[p].commits) = DemoLimitChunk - 1

C7_Ended(p, failures) ==
  ld[p].pc \in {"done", "raised"} =>
    \/ ld[p].failure \in failures
    \/ /\ ld[p].failure = "none" /\ ld[p].pc = "done"
       /\ ld[p].windows # <<>>
       /\ LastWindow(p).len < ld[p].chunk_size

\* C7 (as stated): the cap stops only loads into nppes_providers, after 5
\* committed chunks and with a normal return; a load into another table is
\* never stopped by the cap and ends only on an empty window, a short read
\* or an insertion failure.
C7_Original ==
  \A p \in Ran :
    /\ C7_CapSide(p)
    /\ ld[p].target_table # DemoLimitTable =>
         (~ld[p].capped /\ C7_Ended(p, {"insert"}))

\* C7 (amended): ... ends only on an empty window, a short read, or a
\* failure that it raises: of the insertion, of the connection attempt or of
\* materializing a window.
C7_CapOnlyProviders ==
  \A p \in Ran :
    /\ C7_CapSide(p)
    /\ ld[p].target_table # DemoLimitTable =>
         (~ld[p].capped /\ C7_Ended(p, {"insert", "connect", "collect"}))

C7_Witness ==
  \E p \in Ran :
    /\ ld[p].target_table = DemoLimitTable /\ ld[p].capped /\ ld[p].pc = "done"
    /\ Rows(p) = 7 /\ ld[p].chunk_size = 1
    /\ Target(p) = <<1, 2, 3, 4, 5>>

\* ------------------------------------------------------- exporter claims
Gots == [i \in 1..Len(ex.calls) |-> ex.calls[i].got]
LastCall == ex.calls[Len(ex.calls)]
AllPagesRead ==
  /\ ex.calls # <<>>
  /\ \A i \in 1..Len(ex.calls) : ex.calls[i].got >= 0
  /\ LastCall.got < ex.chunk_size
RECURSIVE SumGot(_)
SumGot(cs) == IF cs = <<>> THEN 0
              ELSE (IF cs[1].got > 0 THEN cs[1].got ELSE 0) + SumGot(Tail(cs))
\* the artifact of a complete export of the view
FullArtifact ==
  [present |-> TRUE,
   data |-> Join(<<HeaderLine>> \o [i \in 1..Len(view) |-> RenderRow(view[i])], "\n")]

\* C8: call i of the paginated reader is made with limit p at offset
\* (i-1)*p; every call that is followed by another returned exactly p rows,
\* so the loop stops right after the first page shorter than p; the rows of
\* every page read, the short one included, are in the content; with p = 2
\* over 5 rows the calls return 2, 2 and 1 rows.
C8_Pagination ==
  ex.pc # "idle" =>
    /\ \A i \in 1..Len(ex.calls) :
         /\ ex.calls[i].limit = ex.chunk_size
         /\ ex.calls[i].offset = (i - 1) * ex.chunk_size
         /\ i < Len(ex.calls) => ex.calls[i].got = ex.chunk_size
    /\ ex.pc \in {"close", "upload"} => AllPagesRead
    /\ (ex.pc = "done" /\ ex.failure \notin {"connect", "read"}) => AllPagesRead
    /\ ex.pc # "start" /\ ex.failure # "connect" =>
         /\ ex.processed_count = SumGot(ex.calls)
         /\ Len(ex.csv_content) = 1 + ex.processed_count
         /\ ex.chunk_start = ex.chunk_size * Cardinality({i \in 1..Len(ex.calls) : ex.calls[i].got > 0})
    /\ (ex.pc \in {"close", "upload", "done"} /\ ex.failure \notin {"connect", "read"}
          /\ ex.chunk_size = 2 /\ Len(view) = 5) => Gots = <<2, 2, 1>>

C8_Witness ==
  /\ ex.pc = "upload" /\ ex.chunk_size = 2 /\ Len(view) = 5
  /\ Gots = <<2, 2, 1>>
  /\ ex.chunk_start = 6
  /\ Len(ex.csv_content) = 6

\* C9: the upload is called at most once, and only after every page has
\* been read and the connection closed; after a failed read it is never
\* called; the blob is what it was before the export or the artifact of the
\* whole view, never the rows of some pages only.
C9_SingleUpload ==
  ex.pc # "idle" =>
    /\ ex.upload_calls <= 1
    /\ ex.upload_calls = 1 => (AllPagesRead /\ ex.conn = "closed" /\ ex.pc = "done"
                                 /\ ex.processed_count = Len(view))
    /\ ex.failure \in {"read", "connect"} => ex.upload_calls = 0
    /\ blob \in {NoBlob, StaleBlob, FullArtifact}
    /\ ex.upload_calls = 0 => blob \in {NoBlob, StaleBlob}

C9_Witness ==
  /\ ex.pc = "done" /\ ex.failure = "read"
  /\ Gots = <<1, 1, -1>>
  /\ Len(ex.csv_content) = 3
  /\ ex.upload_calls = 0
  /\ blob = StaleBlob

\* C10: the exporter always ends by returning True or False, with no
\* connection left open; after a connection failure, a failed read or a
\* failed upload it has returned False; it returns True only when every
\* page was read and the upload stored the artifact.
C10_ReturnsSignal ==
  ex.pc # "idle" =>
    /\ ex.pc = "done" <=> ex.result # "none"
    /\ ex.pc = "done" => (ex.result \in {"True", "False"} /\ ex.conn # "open" /\ ~ex.txn)
    /\ ex.failure # "none" =>
         (ex.pc = "done" /\ ex.result = "False" /\ ex.conn # "open")
    /\ ex.failure = "connect" => (ex.conn = "none" /\ ex.closes = 0)
    /\ ex.failure \in {"read", "upload"} => (ex.conn = "closed" /\ ex.closes = 1)
    /\ ex.result = "True" =>
         /\ ex.failure = "none" /\ AllPagesRead
         /\ ex.upload_calls = 1 /\ blob = FullArtifact
    /\ ex.result = "False" => ex.failure \in {"connect", "read", "upload"}

C10_Witness ==
  /\ ex.pc = "done" /\ ex.result = "False" /\ ex.failure = "upload"
  /\ ex.conn = "closed" /\ ex.closes = 1
  /\ Gots = <<3, 2>>
  /\ blob = NoBlob

\* ------------------------------------------------- loader claims, continued
\* C20: once the truncate, the bulk insert or the commit of the first chunk
\* has failed, the loader has raised with nothing committed and nothing
\* pending, and the target table holds exactly what it held before the
\* load, the truncate being rolled back with the rest.
C20_FirstChunkRollback ==
  \A p \in Ran :
    ld[p].failed_chunk = 1 =>
      /\ ld[p].pc = "raised" /\ ld[p].failure = "insert"
      /\ ld[p].commits = <<>>
      /\ ld[p].txn = NoTxn
      /\ Target(p) = ld[p].before

C20_Witness ==
  \E p \in Ran :
    /\ ld[p].failed_chunk = 1 /\ ld[p].pc = "raised"
    /\ ld[p].truncs = <<1>> /\ ld[p].copies = <<1>>
    /\ ld[p].before = OldRows
    /\ Target(p) = OldRows

\* ----------------------------------------------- exporter claims, continued
PostalIndex == CHOOSE i \in 1..Len(Headers) : Headers[i] = PostalColumn
\* the view rows whose data lines are in the content
Rendered == Len(ex.csv_content) - 1
\* text t with every double quote doubled, wrapped in double quotes
RECURSIVE Doubled(_)
Doubled(t) ==
  IF t = <<>> THEN <<>>
  ELSE IF Head(t) = Q THEN <<Q, Q>> \o Doubled(Tail(t))
  ELSE <<Head(t)>> \o Doubled(Tail(t))
Quoted(t) == <<Q>> \o Doubled(t) \o <<Q>>
\* t with zeros put in front of it up to 5 characters
LeftPadded(t) == IF Len(t) < 5 THEN [i \in 1..(5 - Len(t)) |-> "0"] \o t ELSE t
\* t with zeros put in front of its digits, after a leading sign, up to 5
SignPadded(t) ==
  IF Len(t) >= 5 THEN t
  ELSE IF t # <<>> /\ Head(t) \in {"+", "-"}
  THEN <<Head(t)>> \o [i \in 1..(5 - Len(t)) |-> "0"] \o Tail(t)
  ELSE [i \in 1..(5 - Len(t)) |-> "0"] \o t
\* the data line of a row whose postal values are padded by Pad(_)
LineWith(Pad(_), row) ==
  Join([i \in 1..Len(row) |->
          IF row[i].kind = "none" THEN <<Q, Q>>
          ELSE IF i = PostalIndex THEN Quoted(Pad(PyStr(row[i])))
          ELSE Quoted(PyStr(row[i]))], ",")

\* C16 (as stated): every data line is the comma-joined fields of its row,
\* each wrapped in double quotes with inner quotes doubled, None as "", the
\* postal value left-padded with zeros to 5 characters, no other value
\* padded.
C16_Original ==
  (ex.pc # "idle" /\ Rendered >= 1) =>
    \A j \in 1..Rendered : ex.csv_content[j + 1] = LineWith(LeftPadded, view[j])

\* C16 (amended): the same, the zeros of a postal value that starts with a
\* sign ('+' or '-') going after the sign instead of in front of it.
C16_QuotedFields ==
  (ex.pc # "idle" /\ Rendered >= 1) =>
    \A j \in 1..Rendered :
      /\ ex.csv_content[j + 1] = LineWith(SignPadded, view[j])
      /\ view[j][PostalIndex].kind # "none" /\ Len(PyStr(view[j][PostalIndex])) < 5
           => Len(SignPadded(PyStr(view[j][PostalIndex]))) = 5

C16_Witness ==
  /\ ex.pc = "done" /\ ex.result = "True"
  /\ Rendered >= 3
  /\ ex.csv_content[2] = <<"\"", "1", "\"", ",", "\"", "1", "\"", ",", "\"", "\"", ",", "\"", "1", " ", "M", "a", "i", "n", "\"", ",", "\"", "\"", ",", "\"", "c", "\"", ",", "\"", "N", "Y", "\"", ",", "\"", "0", "0", "5", "0", "1", "\"", ",", "\"", "k", "\"", ",", "\"", "N", "Y", "\"", ",", "\"", "t", "\"", ",", "\"", "\"", ",", "\"", "g", "\"", ",", "\"", "\"", ",", "\"", "1", "\"">>
  /\ ex.csv_content[4] = <<"\"", "3", "\"", ",", "\"", "1", "\"", ",", "\"", "A", "\"", "\"", "b", "\"", ",", "\"", "1", " ", "M", "a", "i", "n", "\"", ",", "\"", "\"", ",", "\"", "c", "\"", ",", "\"", "N", "Y", "\"", ",", "\"", "-", "0", "0", "1", "2", "\"", ",", "\"", "k", "\"", ",", "\"", "N", "Y", "\"", ",", "\"", "t", "\"", ",", "\"", "\"", ",", "\"", "g", "\"", ",", "\"", "\"", ",", "\"", "0", "\"">>

\* the rows the paginated reads returned, in the order they were returned
RECURSIVE ReturnedBy(_)
ReturnedBy(cs) ==
  IF cs = <<>> THEN <<>>
  ELSE (IF Head(cs).got > 0
        THEN SubSeq(view, Head(cs).offset + 1, Head(cs).offset + Head(cs).got)
        ELSE <<>>) \o ReturnedBy(Tail(cs))
\* the header line, written out
HeaderText ==
  << "\"", "n", "p", "i", "\"", ",", "\"", "e", "n", "t", "i", "t",
     "y", "_", "t", "y", "p", "e", "\"", ",", "\"", "e", "n", "t",
     "i", "t", "y", "_", "n", "a", "m", "e", "\"", ",", "\"", "p",
     "r", "o", "v", "i", "d", "e", "r", "_", "l", "o", "c", "a",
     "t", "i", "o", "n", "_", "a", "d", "d", "r", "e", "s", "s",
     "_", "1", "\"", ",", "\"", "p", "r", "o", "v", "i", "d", "e",
     "r", "_", "l", "o", "c", "a", "t", "i", "o", "n", "_", "a",
     "d", "d", "r", "e", "s", "s", "_", "2", "\"", ",", "\"", "p",
     "r", "o", "v", "i", "d", "e", "r", "_", "c", "i", "t", "y",
     "\"", ",", "\"", "p", "r", "o", "v", "i", "d", "e", "r", "_",
     "s", "t", "a", "t", "e", "\"", ",", "\"", "p", "r", "o", "v",
     "i", "d", "e", "r", "_", "p", "o", "s", "t", "a", "l", "_",
     "c", "o", "d", "e", "_", "c", "l", "e", "a", "n", "\"", ",",
     "\"", "c", "o", "u", "n", "t", "y", "_", "n", "a", "m", "e",
     "\"", ",", "\"", "s", "t", "a", "t", "e", "_", "n", "a", "m",
     "e", "\"", ",", "\"", "p", "r", "i", "m", "a", "r", "y", "_",
     "t", "a", "x", "o", "n", "o", "m", "y", "_", "c", "o", "d",
     "e", "\"", ",", "\"", "t", "a", "x", "o", "n", "o", "m", "y",
     "_", "g", "r", "o", "u", "p", "i", "n", "g", "\"", ",", "\"",
     "t", "a", "x", "o", "n", "o", "m", "y", "_", "c", "l", "a",
     "s", "s", "i", "f", "i", "c", "a", "t", "i", "o", "n", "\"",
     ",", "\"", "t", "a", "x", "o", "n", "o", "m", "y", "_", "s",
     "p", "e", "c", "i", "a", "l", "i", "z", "a", "t", "i", "o",
     "n", "\"", ",", "\"", "d", "a", "t", "a", "_", "q", "u", "a",
     "l", "i", "t", "y", "_", "s", "c", "o", "r", "e", "\"" >>
Lines(t) == Cardinality({i \in 1..Len(t) : t[i] = "\n"}) + 1

\* C18: once the export has returned True, the blob is the header line of
\* the 15 column names followed by one line per row the reads returned, in
\* the order returned, each row once: 1 + m lines joined by line breaks;
\* over an empty view it is the header line alone.
C18_Artifact ==
  ex.result = "True" =>
    LET rows == ReturnedBy(ex.calls)
        m == Len(rows)
    IN /\ Len(Headers) = 15
       /\ blob.present
       /\ blob.data = Join(<<HeaderText>> \o [j \in 1..m |-> RenderRow(rows[j])], "\n")
       /\ Lines(blob.data) = 1 + m
       /\ rows = view
       /\ \A j, k \in 1..m : j # k => rows[j] # rows[k]
       /\ Len(view) = 0 => blob.data = HeaderText

C18_Witness ==
  /\ ex.result = "True"
  /\ Gots = <<2, 2, 1>>
  /\ Lines(blob.data) = 6

\* ------------------------------------------------------ snapshot loader claims
\* the rows this load added to the table
ApiLoaded == SubSeq(census, Len(api.before) + 1, Len(census))
\* none of the four columns is null once the population is coerced
CompleteRow(row) ==
  /\ row[1].kind # "none" /\ row[3].kind # "none" /\ row[4].kind # "none"
  /\ CastInt32(row[2]).kind # "none"
Holds(row, ch) ==
  \E i \in 1..Len(row) : row[i].kind = "str" /\ \E k \in 1..Len(row[i].val) : row[i].val[k] = ch
CompleteOneLine(row) == CompleteRow(row) /\ ~Holds(row, "\t") /\ ~Holds(row, "\n")
\* a data row as the table receives it: the population in decimal, every
\* column trimmed (and in quotes if it holds a quote), an empty text as null
AsLoaded(row) ==
  [j \in 1..4 |->
     LET t == CsvField(CleanCell(IF j = 2 THEN CastInt32(row[j]) ELSE row[j]))
     IN IF t = <<>> THEN None ELSE S(t)]
IsLoaded(row) == \E k \in 1..Len(ApiLoaded) : ApiLoaded[k] = AsLoaded(row)
ApiOneTransaction ==
  /\ api.commits <= 1
  /\ api.commits = 0 => census = api.before
  /\ api.pc = "raised" => (census = api.before /\ api.commits = 0)
  /\ api.pc = "done" => api.commits = 1

ClosedOnce(o) ==
  \/ o.conn = "none" /\ o.closes = 0
  \/ o.conn = "closed" /\ o.closes = 1

\* C11: the snapshot load, a chunked load and an export each close the
\* connection they opened exactly once on every exit path, normal or failing;
\* a connection is open only while its operation runs.
C11_ClosedOnce ==
  /\ api.closes <= 1 /\ ex.closes <= 1
  /\ \A p \in Loaders : ld[p].closes <= 1
  /\ api.pc \in {"done", "raised"} =>
       /\ ClosedOnce(api)
       /\ api.conn = "none" <=> api.failure \in {"frame", "connect"}
  /\ \A p \in Loaders :
       ld[p].pc \in {"done", "raised"} =>
         /\ ClosedOnce(ld[p])
         /\ ld[p].conn = "none" <=> ld[p].failure = "connect"
  /\ ex.pc = "done" =>
       /\ ClosedOnce(ex)
       /\ ex.conn = "none" <=> ex.failure = "connect"

\* the three operations of one invocation have ended, the loader after a
\* failed insert and the exporter after a failed read, each with one close
C11_Witness ==
  /\ api.pc = "done" /\ api.closes = 1
  /\ ex.pc = "done" /\ ex.failure = "read" /\ ex.closes = 1
  /\ hd.pc = "returned" /\ Len(hd.loaded) = Len(SourceTables)
  /\ ld["A"].pc = "done" /\ ld["A"].closes = 1

\* the elements of a sequence
Range(seq) == {seq[i] : i \in 1..Len(seq)}

\* every table holds what it held when its source's load returned (or what it
\* held at the start of the invocation when the source was skipped)
TablesAsLoaded == \A t \in SourceTableSet : table[t] = hd.as_loaded[t]

\* C12: when the snapshot load, the chunked loads and the transformation
\* succeeded and the export fails (connection, store read or upload), the
\* handler still answers once, with the success response, and the export
\* leaves every loaded table as it was loaded.
C12_ExportFailureTolerated ==
  /\ ex.pc # "idle" => TablesAsLoaded
  /\ (hd.pc = "returned" /\ ex.pc = "done" /\ ex.result = "False") =>
       /\ hd.status = 200 /\ hd.responses = 1 /\ hd.cause = "none"
       /\ api.pc = "done" /\ hd.tconn = "closed"
       /\ Len(hd.loaded) + Len(hd.skipped) = Len(SourceTables)

\* all four sources were loaded, the upload failed, the answer is 200
C12_Witness ==
  /\ hd.pc = "returned" /\ hd.status = 200
  /\ ex.result = "False" /\ ex.failure = "upload"
  /\ hd.loaded = <<1, 2, 3, 4>>
  /\ table["nppes_providers"] = Dataset(MaxSrcRows)
  /\ table["nucc_taxonomy"] = Dataset(1)

\* C13: a source that cannot be read or parsed, or that lacks a requested
\* column, is answered by the extractor with an absent result, so that the
\* handler skips its load, leaves its target table untouched and still runs
\* the remaining loads, the transformation and the export: once the handler
\* has answered, such a source is among the skipped ones, its table is as it
\* was and no chunked load has aborted the invocation.
C13_Original ==
  (hd.pc = "returned" /\ hd.defect # 0) =>
    /\ hd.defect \in Range(hd.skipped)
    /\ table[SourceTables[hd.defect]] = OldRows
    /\ hd.cause # "load"

\* the place of a step in the order of the handler
StepRank(step) ==
  CASE step = "snapshot" -> 1
    [] step = "load" -> 2
    [] step = "transform" -> 3
    [] step = "transformed" -> 4
    [] step = "export" -> 5

Increasing(seq) == \A i, j \in 1..Len(seq) : i < j => seq[i] < seq[j]

\* C14: the steps of an invocation start in the order snapshot load, chunked
\* loads (provider registry, zip/county, SSA/FIPS, taxonomy), transformation,
\* export; a step starts only after the one before it has returned; the
\* transformation starts only when every source has been loaded or skipped,
\* and the export only after the transformation has committed.
C14_StepOrder ==
  /\ hd.steps # <<>> => hd.steps[1] = "snapshot"
  /\ \A i, j \in 1..Len(hd.steps) :
       i < j => \/ StepRank(hd.steps[i]) < StepRank(hd.steps[j])
                \/ hd.steps[i] = "load" /\ hd.steps[j] = "load"
  /\ Increasing(hd.loaded)
  /\ \A p \in Loaders : ld[p].pc # "idle" => api.pc = "done"
  /\ ld["A"].pc \notin {"idle", "done", "raised"} =>
       /\ hd.pc = "load"
       /\ ld["A"].target_table = SourceTables[hd.source]
       /\ \A k \in 1..(hd.source - 1) : k \in Range(hd.loaded) \cup Range(hd.skipped)
  /\ "transform" \in Range(hd.steps) =>
       /\ ld["A"].pc \in {"idle", "done"}
       /\ Range(hd.loaded) \cup Range(hd.skipped) = 1..Len(SourceTables)
  /\ ex.pc # "idle" =>
       /\ "transformed" \in Range(hd.steps)
       /\ ~hd.ttxn /\ hd.tconn = "closed" /\ open_txns = (IF ex.txn THEN 1 ELSE 0)

\* a whole invocation: every step ran, in order
C14_Witness ==
  /\ hd.pc = "returned" /\ hd.status = 200 /\ ex.result = "True"
  /\ hd.steps = <<"snapshot", "load", "load", "load", "load",
                  "transform", "transformed", "export">>
  /\ hd.loaded = <<1, 2, 3, 4>>

\* C15: when the snapshot fetch fails, the handler answers at once with the
\* error response: no store connection was opened, no table was changed and
\* no snapshot load, chunked load, transformation or export was started.
C15_FetchFailure ==
  hd.cause = "fetch" =>
    /\ hd.pc = "returned" /\ hd.status = 500 /\ hd.responses = 1
    /\ hd.steps = <<>>
    /\ api.pc = "idle" /\ api.conn = "none"
    /\ \A p \in Loaders : ld[p].pc = "idle" /\ ld[p].conn = "none"
    /\ ex.pc = "idle" /\ ex.conn = "none"
    /\ hd.tconn = "none" /\ open_txns = 0
    /\ \A t \in SourceTableSet : table[t] = OldRows
    /\ census = CensusBefore /\ view = <<>> /\ blob = StaleBlob

\* the fetch failed and the handler answered 500
C15_Witness ==
  /\ hd.cause = "fetch" /\ hd.pc = "returned" /\ hd.status = 500
  /\ api.pc = "idle"

\* both concurrent invocations returned normally
BothSucceeded == \A p \in Loaders : ld[p].pc = "done" /\ ld[p].failure = "none"

\* the rows of loader p's dataset that the table holds, in table order
Kept(p) == SelectSeq(table[RaceTable], LAMBDA r : r \in Range(ld[p].dataset))

\* the dataset of p without its first j chunks
ChunkTail(p, j) == SubSeq(ld[p].dataset, j * ld[p].chunk_size + 1, Rows(p))

\* C19: two concurrent invocations on the same table are not excluded from
\* one another, and both can report success over a table that equals neither
\* dataset.  What the per-chunk transactions do guarantee when both succeed:
\* the table holds only rows of the two datasets; the run whose first chunk
\* committed last is wholly there, and of the other run only the chunks that
\* committed after that truncate, a tail that lacks at least its first chunk
\* (so the table never holds both datasets whole).
C19_RaceOutcome ==
  (BothSucceeded /\ Rows("A") > 0 /\ Rows("B") > 0) =>
    /\ Range(table[RaceTable]) \subseteq Range(ld["A"].dataset) \cup Range(ld["B"].dataset)
    /\ Len(table[RaceTable]) = Len(Kept("A")) + Len(Kept("B"))
    /\ \E x \in Loaders : \E y \in Loaders \ {x} :
         /\ Kept(x) = ld[x].dataset
         /\ \E j \in 1..Len(ld[y].windows) : Kept(y) = ChunkTail(y, j)

\* both runs reported success; B truncated after A's first chunk had
\* committed, A's second chunk committed after that truncate, and the table
\* is neither A's dataset nor B's
C19_Witness ==
  /\ BothSucceeded
  /\ ld["A"].dataset = Dataset(2) /\ ld["A"].chunk_size = 1
  /\ ld["B"].dataset = RaceDataset(2) /\ ld["B"].chunk_size = 1
  /\ table[RaceTable] = <<11, 2, 12>>
  /\ table[RaceTable] # ld["A"].dataset /\ table[RaceTable] # ld["B"].dataset

\* the loaders that were given a dataset with zero rows
RanEmpty == {p \in Ran : Rows(p) = 0}

\* C21 (as stated): a load of zero rows never truncates, commits nothing,
\* leaves the table as it was, and returns normally with its connection
\* closed.
C21_Original ==
  \A p \in RanEmpty :
    /\ ld[p].truncs = <<>> /\ ld[p].commits = <<>>
    /\ Target(p) = ld[p].before
    /\ ld[p].pc \in {"done", "raised"} =>
         (ld[p].pc = "done" /\ ld[p].conn = "closed")

\* C21 (amended): a load of zero rows never truncates, commits nothing and
\* leaves the table as it was; it materializes at most one window, the empty
\* one; it returns normally with its connection closed unless the connection
\* cannot be acquired or the first collect raises, and then it raises with
\* no connection left open.
C21_EmptyDataset ==
  \A p \in RanEmpty :
    /\ ld[p].truncs = <<>> /\ ld[p].copies = <<>> /\ ld[p].commits = <<>>
    /\ ld[p].txn = NoTxn
    /\ Target(p) = ld[p].before
    /\ Len(ld[p].windows) <= 1
    /\ \A i \in 1..Len(ld[p].windows) : ld[p].windows[i].len = 0
    /\ ld[p].failure \in {"none", "connect", "collect"}
    /\ ld[p].pc = "done" <=> (Len(ld[p].windows) = 1 /\ ld[p].conn = "closed"
                               /\ ld[p].failure = "none")
    /\ ld[p].pc = "done" => ld[p].closes = 1
    /\ ld[p].pc = "raised" => (ld[p].failure # "none" /\ ld[p].conn # "open")

\* a load of zero rows into a table that held rows has returned normally
C21_Witness ==
  /\ "A" \in RanEmpty /\ ld["A"].pc = "done" /\ ld["A"].conn = "closed"
  /\ ld["A"].before = OldRows /\ Target("A") = OldRows
  /\ Len(ld["A"].windows) = 1

\* C22: when NPPES_Data_Cleaning has returned a response, success or error,
\* no store connection opened during the invocation is still open and no
\* transaction is left pending; in particular the connection of the
\* transformation step is closed when one of its procedures fails.
C22_Original ==
  hd.pc = "returned" =>
    /\ api.conn # "open"
    /\ \A p \in Loaders : ld[p].conn # "open"
    /\ ex.conn # "open"
    /\ hd.tconn # "open"
    /\ open_txns = 0

\* C23: when the chunked load of source k raises, the handler answers 500
\* exactly once; no later source is extracted or loaded, the transformation
\* and the export are never started, and the table of every source loaded
\* before k holds what that load left in it.
C23_LoadAborts ==
  hd.cause = "load" =>
    /\ hd.pc = "returned" /\ hd.status = 500 /\ hd.responses = 1
    /\ ld["A"].pc = "raised" /\ ld["A"].target_table = SourceTables[hd.source]
    /\ Range(hd.loaded) \cup Range(hd.skipped) = 1..(hd.source - 1)
    /\ Len(SelectSeq(hd.steps, LAMBDA s : s = "load")) = Len(hd.loaded) + 1
    /\ \A k \in (hd.source + 1)..Len(SourceTables) : table[SourceTables[k]] = OldRows
    /\ \A k \in Range(hd.loaded) : table[SourceTables[k]] = hd.as_loaded[SourceTables[k]]
    /\ "transform" \notin Range(hd.steps) /\ "export" \notin Range(hd.steps)
    /\ hd.tconn = "none" /\ ~hd.ttxn /\ view = <<>>
    /\ ex.pc = "idle" /\ blob = StaleBlob

\* the load of the third source failed in its insert after two sources were
\* loaded; their tables hold the new rows
C23_Witness ==
  /\ hd.cause = "load" /\ hd.pc = "returned" /\ hd.status = 500
  /\ hd.source = 3 /\ hd.loaded = <<1, 2>>
  /\ ld["A"].failure = "insert"
  /\ table["nppes_providers"] = Dataset(2) /\ table["zip_county"] = Dataset(1)
  /\ table["ssa_fips_state_county"] = OldRows

\* every operation that was called has returned or raised
Terminated ==
  /\ \A p \in Loaders : ld[p].pc \in {"idle", "done", "raised"}
  /\ ex.pc \in {"idle", "done"}

\* an iteration that goes round the loop again has moved the offset forward
LoopAdvances ==
  /\ \A p \in Loaders :
       (ld[p].pc = "commit" /\ ld'[p].pc = "loop") =>
         ld'[p].total_rows_processed > ld[p].total_rows_processed
  /\ (ex.pc = "page" /\ ex'.pc = "page") => ex'.chunk_start > ex.chunk_start

\* C24: for every dataset and export view within the bounds and every chunk
\* or page size >= 1, a chunked load and an export terminate, by returning or
\* by failing, and every iteration that stays in the loop strictly increases
\* the loop's offset.
C24_Terminates ==
  /\ <>Terminated
  /\ [][LoopAdvances]_vars

\* a load that went round its loop several times has returned
C24_Witness ==
  /\ ld["A"].pc = "done" /\ ld["A"].failure = "none"
  /\ Len(ld["A"].commits) >= 3 /\ ld["A"].total_rows_processed = Rows("A")
  /\ Terminated

====
